---- MODULE Spec2Model ----
(***************************************************************************)
(* Model of the JUnit 5 question-type template                             *)
(* (JUnitTesting/PROTOTYPE_TEMPLATE_java_junit_tester_junit_5.py).         *)
(*                                                                         *)
(* Source texts and process output are sequences of lexical tokens         *)
(* (maximal runs of word characters, single whitespace characters, single  *)
(* punctuation characters), so the regular expression of the class         *)
(* detector and str.replace/str.strip are computed token by token.         *)
(* Messages are sequences of text pieces; the concatenation of the pieces  *)
(* is the Python string.                                                   *)
(* The compiler and the test runner are external processes.  Whether javac *)
(* accepts a unit is an input of the run, except that it rejects a public  *)
(* class in a file of another name; the class files it writes are those of *)
(* the classes the text declares outside comments.  Exit codes and output  *)
(* are chosen from enumerated sets.                                        *)
(***************************************************************************)
EXTENDS Integers, Sequences, FiniteSets, TLC

\* ------------------------------------------------------------------ bounds
MaxChunks == 2
MaxOutLen == 2

\* --------------------------------------------------------------- constants
JUNK_JUNIT_OUTPUT_TEXT == "Thanks for using JUnit! Support its development at https://junit.org/sponsoring"

\* the value of a local of run_tester that has not been assigned yet
UnboundScore == -1
UnboundText == <<>>
NoError == <<>>

\* ------------------------------------------------------------ source texts
SpaceTokens == {" ", "\n"}
PunctTokens == {";", "//"}
WordTokens == {"public", "class", "User", "UserTest", "Helper", "Old", "java"}

\* the pieces source texts are made of
Chunks ==
  { <<"public", " ", "class", " ", "User", " ">>,
    <<"public", "\n", "class", " ", "UserTest", ";">>,
    <<"class", " ", "Helper", " ">>,
    <<"//", "public", " ", "class", " ", "Old", "\n">>,
    <<"java", ";">> }

RECURSIVE ChunkTexts(_)
ChunkTexts(n) ==
  IF n = 0 THEN {<<>>}
  ELSE LET shorter == ChunkTexts(n - 1)
       IN  shorter \cup {t \o c : t \in shorter, c \in Chunks}

\* the texts the student can submit ({{ STUDENT_ANSWER }})
StudentCodes == ChunkTexts(MaxChunks)

\* the texts of the question author ({{ TEST.testcode }})
ModelCodes ==
  { <<"public", " ", "class", " ", "User", " ">>,
    <<"public", " ", "class", " ", "User", " ", "class", " ", "Helper", " ">>,
    <<"//", "public", " ", "class", " ", "Old", "\n", "class", " ", "User", " ">>,
    <<"class", " ", "User", " ">>,
    <<"public", " ", "class", " ", "User", ";", "public", " ", "class", " ", "UserTest">> }

ExpectedStrs == {"PASS", "FAIL", "SOMETHING_ELSE"}
PrecheckStrs == {"0", "1", "SOMETHING_ELSE"}

\* ------------------------------------------------ class_detector_regex
\* last index of the maximal run of tokens of S that starts at i (i - 1 if empty)
SpanEnd(code, i, S) ==
  CHOOSE k \in (i - 1)..Len(code) :
    /\ \A m \in i..k : code[m] \in S
    /\ (k = Len(code) \/ code[k + 1] \notin S)

\* r'public\s+class\s+(\w+)' matched at token i: the match, or end = 0
MatchAt(code, i) ==
  LET ws1 == SpanEnd(code, i + 1, SpaceTokens)
      ws2 == SpanEnd(code, ws1 + 2, SpaceTokens)
      w   == SpanEnd(code, ws2 + 1, WordTokens)
  IN  IF /\ i <= Len(code)
         /\ code[i] = "public"
         /\ ws1 >= i + 1
         /\ ws1 + 1 <= Len(code)
         /\ code[ws1 + 1] = "class"
         /\ ws2 >= ws1 + 2
         /\ w >= ws2 + 1
      THEN [end |-> w, groups |-> <<SubSeq(code, ws2 + 1, w)>>]
      ELSE [end |-> 0, groups |-> <<>>]

\* regex.search(code, pos): the leftmost match starting at pos or later
SearchFrom(code, pos) ==
  LET starts == {i \in pos..Len(code) : MatchAt(code, i).end # 0}
  IN  IF starts = {} THEN [end |-> 0, groups |-> <<>>]
      ELSE MatchAt(code, CHOOSE i \in starts : \A j \in starts : i <= j)

class_detector_regex_search(code) == SearchFrom(code, 1)

\* ---------------------------------------------------------- TestingError
Ok(v) == [ok |-> TRUE, value |-> v, message |-> NoError]
TestingError(msg) == [ok |-> FALSE, value |-> <<>>, message |-> msg]

NoPublicClassMessage(code_type) ==
  <<"** Could not find public class in the ", code_type, " code. Testing aborted **">>
MultiplePublicClassesMessage(code_type) ==
  <<"** Multiple public classes found in the ", code_type, " code. Testing aborted **">>

get_class_name_from_code(code, code_type) ==
  LET class_name_search == class_detector_regex_search(code)
  IN  IF class_name_search.end = 0
      THEN TestingError(NoPublicClassMessage(code_type))
      ELSE IF Len(class_name_search.groups) > 1
      THEN TestingError(MultiplePublicClassesMessage(code_type))
      ELSE Ok(class_name_search.groups[1])

\* --------------------------------------------------------------- parse_args
\* parse_args without the validation of the expected result
parse_args_no_expected_validation(model_str, student_str, expected_str, precheck_str) ==
  IF precheck_str \notin {"0", "1"}
  THEN TestingError(<<"IS_PRECHECK must be 0 or 1">>)
  ELSE Ok([model_class_code |-> model_str,
           student_junit_code |-> student_str,
           should_pass |-> (expected_str = "PASS"),
           is_precheck |-> (precheck_str = "1")])

\* parse_args without the validation of IS_PRECHECK
parse_args_no_precheck_validation(model_str, student_str, expected_str, precheck_str) ==
  IF expected_str \notin {"PASS", "FAIL"}
  THEN TestingError(<<"Expected output must be either PASS or FAIL">>)
  ELSE Ok([model_class_code |-> model_str,
           student_junit_code |-> student_str,
           should_pass |-> (expected_str = "PASS"),
           is_precheck |-> (precheck_str = "1")])

parse_args(model_str, student_str, expected_str, precheck_str) ==
  IF precheck_str \notin {"0", "1"}
  THEN TestingError(<<"IS_PRECHECK must be 0 or 1">>)
  ELSE IF expected_str \notin {"PASS", "FAIL"}
  THEN TestingError(<<"Expected output must be either PASS or FAIL">>)
  ELSE Ok([model_class_code |-> model_str,
           student_junit_code |-> student_str,
           should_pass |-> (expected_str = "PASS"),
           is_precheck |-> (precheck_str = "1")])

\* ------------------------------------------------------------------- files
JavaFile(name) == [stem |-> name, ext |-> ".java"]
ClassFile(name) == [stem |-> name, ext |-> ".class"]

\* os.remove that leaves the file in place
os_remove_keeps(files, file) == files

\* os.remove(file) on an existing file
os_remove(files, file) == files \ {file}

\* -------------------------------------------------------- external processes
\* javac: token j lies in a "//" comment
InLineComment(code, j) ==
  \E k \in 1..j : code[k] = "//" /\ \A m \in k..j : code[m] # "\n"

\* javac: the name of the class declared by the keyword at token j, or <<>>
DeclaredAt(code, j) ==
  LET ws == SpanEnd(code, j + 1, SpaceTokens)
      w  == SpanEnd(code, ws + 1, WordTokens)
  IN  IF /\ code[j] = "class"
         /\ (j = 1 \/ code[j - 1] \notin WordTokens)
         /\ ~InLineComment(code, j)
         /\ ws >= j + 1
         /\ w >= ws + 1
      THEN SubSeq(code, ws + 1, w)
      ELSE <<>>

\* javac: the classes the text declares
DeclaredClasses(code) == {DeclaredAt(code, j) : j \in 1..Len(code)} \ {<<>>}

\* javac: the classes the text declares public
PublicClasses(code) ==
  { MatchAt(code, i).groups[1] :
      i \in { k \in 1..Len(code) :
                /\ MatchAt(code, k).end # 0
                /\ (k = 1 \/ code[k - 1] \notin WordTokens)
                /\ ~InLineComment(code, k) } }

\* javac: "class X is public, should be declared in a file named X.java"
FileNameAllowed(code, name) == \A c \in PublicClasses(code) : c = name

\* run_process_to_stdout("javac <name>.java") on the saved text
CompilerRuns(accepts, code, name) ==
  IF accepts /\ FileNameAllowed(code, name)
  THEN { [returncode |-> 0, stdout |-> out,
          outputs |-> {ClassFile(c) : c \in DeclaredClasses(code)}] :
           out \in {"", "Note: uses unchecked or unsafe operations."} }
  ELSE { [returncode |-> 1, stdout |-> "error: compilation failed", outputs |-> {}],
         [returncode |-> 2, stdout |-> "", outputs |-> {}] }

OutTokens == {JUNK_JUNIT_OUTPUT_TEXT, " ", "Test run finished"}

RECURSIVE SeqsUpTo(_, _)
SeqsUpTo(S, n) ==
  IF n = 0 THEN {<<>>}
  ELSE LET shorter == SeqsUpTo(S, n - 1)
       IN  shorter \cup {Append(t, x) : t \in shorter, x \in S}

\* what the console launcher can write to stdout
RunnerOutputs == SeqsUpTo(OutTokens, MaxOutLen)

RunnerExitCodes == {0, 1, 2}

\* run_process_to_stdout("java -jar <console> ... --select-class <name>"):
\* the launcher cannot report success for a class it cannot load
RunnerRuns(class_present) ==
  { [returncode |-> rc, stdout |-> out] :
      rc \in (IF class_present THEN RunnerExitCodes ELSE RunnerExitCodes \ {0}),
      out \in RunnerOutputs }

\* ------------------------------------------------------- test_junit_program
\* stdout + "\n** Compilation of <role> code failed. Testing aborted **"
CompilationFailedMarker(code_type) ==
  IF code_type = "model"
  THEN "\n** Compilation of model code failed. Testing aborted **"
  ELSE "\n** Compilation of JUnit code failed. Testing aborted **"

\* the check of the compiler's exit code left out
check_compile_result_ignored(compile_result, code_type) == Ok(<<>>)

\* the check of the compiler's exit code with the condition inverted for exit code 2
check_compile_result_not2(compile_result, code_type) ==
  IF compile_result.returncode \notin {0, 2}
  THEN TestingError(<<compile_result.stdout, CompilationFailedMarker(code_type)>>)
  ELSE Ok(<<>>)

\* the check of the compiler's exit code, comparing with 1 only
check_compile_result_eq1(compile_result, code_type) ==
  IF compile_result.returncode = 1
  THEN TestingError(<<compile_result.stdout, CompilationFailedMarker(code_type)>>)
  ELSE Ok(<<>>)

\* "if compile_result.returncode != 0: raise TestingError(...)"
check_compile_result(compile_result, code_type) ==
  IF compile_result.returncode # 0
  THEN TestingError(<<compile_result.stdout, CompilationFailedMarker(code_type)>>)
  ELSE Ok(<<>>)

\* str.replace(junk, "")
RECURSIVE Replace(_, _)
Replace(text, junk) ==
  IF text = <<>> THEN <<>>
  ELSE IF Head(text) = junk THEN Replace(Tail(text), junk)
  ELSE <<Head(text)>> \o Replace(Tail(text), junk)

\* str.strip()
RECURSIVE LStrip(_)
LStrip(text) ==
  IF text # <<>> /\ Head(text) \in SpaceTokens THEN LStrip(Tail(text)) ELSE text

RECURSIVE RStrip(_)
RStrip(text) ==
  IF text # <<>> /\ text[Len(text)] \in SpaceTokens
  THEN RStrip(SubSeq(text, 1, Len(text) - 1))
  ELSE text

Strip(text) == RStrip(LStrip(text))

\* execution_result.stdout.replace(self.junk_junit_output_text, "").strip()
result_str_of(stdout, junk_junit_output_text) == Strip(Replace(stdout, junk_junit_output_text))

UnexpectedFailureMarker == "\n\n** Expected the tests to pass, but at least one failed! **"
UnexpectedSuccessMarker == "\n\n** Expected at least one test to fail, but they all passed! **"
CompiledSuccessfully == <<"** Code compiled successfully **">>
AllTestsPassed == <<"All tests passed!">>

\* step 6 deciding success by the launcher's summary line instead of the exit code
assert_result_by_text(should_pass, returncode, result_str) ==
  LET passed == result_str = <<>>
  IN  IF should_pass /\ ~passed
      THEN TestingError(Append(result_str, UnexpectedFailureMarker))
      ELSE IF should_pass = FALSE /\ passed
      THEN TestingError(Append(result_str, UnexpectedSuccessMarker))
      ELSE IF result_str = <<>> /\ returncode = 0
      THEN Ok(AllTestsPassed)
      ELSE Ok(result_str)

\* step 6 replacing empty output whatever the exit code is
assert_result_empty_any_exit(should_pass, returncode, result_str) ==
  IF should_pass /\ returncode = 1
  THEN TestingError(Append(result_str, UnexpectedFailureMarker))
  ELSE IF should_pass = FALSE /\ returncode = 0
  THEN TestingError(Append(result_str, UnexpectedSuccessMarker))
  ELSE IF result_str = <<>>
  THEN Ok(AllTestsPassed)
  ELSE Ok(result_str)

\* step 6 with the replacement of empty output done before the comparisons
assert_result_empty_first(should_pass, returncode, result_str) ==
  IF result_str = <<>> /\ returncode = 0
  THEN Ok(AllTestsPassed)
  ELSE IF should_pass /\ returncode = 1
  THEN TestingError(Append(result_str, UnexpectedFailureMarker))
  ELSE IF should_pass = FALSE /\ returncode = 0
  THEN TestingError(Append(result_str, UnexpectedSuccessMarker))
  ELSE Ok(result_str)

\* step 6 with the second comparison ignoring the exit code
assert_result_always_unexpected(should_pass, returncode, result_str) ==
  IF should_pass /\ returncode = 1
  THEN TestingError(Append(result_str, UnexpectedFailureMarker))
  ELSE IF should_pass = FALSE
  THEN TestingError(Append(result_str, UnexpectedSuccessMarker))
  ELSE IF result_str = <<>> /\ returncode = 0
  THEN Ok(AllTestsPassed)
  ELSE Ok(result_str)

\* step 6 of test_junit_program: "Assert that the result was as expected"
assert_result(should_pass, returncode, result_str) ==
  IF should_pass /\ returncode = 1
  THEN TestingError(Append(result_str, UnexpectedFailureMarker))
  ELSE IF should_pass = FALSE /\ returncode = 0
  THEN TestingError(Append(result_str, UnexpectedSuccessMarker))
  ELSE IF result_str = <<>> /\ returncode = 0
  THEN Ok(AllTestsPassed)
  ELSE Ok(result_str)

\* the precheck test missing
returns_before_execution_never(is_precheck) == FALSE

\* "if is_precheck: return ..."
returns_before_execution(is_precheck) == is_precheck

\* -------------------------------------------------------------------- state
VARIABLES
  is_precheck_str,        \* {{ IS_PRECHECK }}
  expected_result_str,    \* {{ TEST.expected }}
  model_class_code_str,   \* {{ TEST.testcode }}
  student_junit_code_str, \* {{ STUDENT_ANSWER }}
  javac_accepts,          \* per unit: whether javac accepts the text
  pc,                     \* position of run_tester
  args,                   \* the tuple parse_args returned
  model_class_name,
  junit_class_name,
  files_to_remove,        \* JUnitTester._files_to_remove
  fs,                     \* files of the working directory
  created,                \* files written during the run
  removed,                \* files the cleanup loop has visited and removed
  processes,              \* the external processes run so far, in order
  raised,                 \* the TestingError caught by run_tester
  output_text,
  fractional_score,
  printed                 \* what run_tester printed

inputs == <<is_precheck_str, expected_result_str, model_class_code_str,
            student_junit_code_str, javac_accepts>>
locals == <<args, model_class_name, junit_class_name>>
outcome == <<raised, output_text, fractional_score, printed>>
vars == <<inputs, pc, locals, files_to_remove, fs, created, removed, processes, outcome>>

NoArgs == [model_class_code |-> <<>>, student_junit_code |-> <<>>,
           should_pass |-> FALSE, is_precheck |-> FALSE]

Init ==
  /\ is_precheck_str \in PrecheckStrs
  /\ expected_result_str \in ExpectedStrs
  /\ model_class_code_str \in ModelCodes
  /\ student_junit_code_str \in StudentCodes
  /\ javac_accepts \in [{"model", "JUnit"} -> BOOLEAN]
  /\ pc = "parse_args"
  /\ args = NoArgs
  /\ model_class_name = <<>>
  /\ junit_class_name = <<>>
  /\ files_to_remove = {}
  /\ fs = {}
  /\ created = {}
  /\ removed = {}
  /\ processes = <<>>
  /\ raised = NoError
  /\ output_text = UnboundText
  /\ fractional_score = UnboundScore
  /\ printed = <<>>

\* a TestingError leaves the try block
Raise(err) ==
  /\ raised' = err.message
  /\ pc' = "except"
  /\ UNCHANGED <<output_text, fractional_score, printed>>

\* test_junit_program returns text: "output_text = ...; fractional_score = 1"
Return(text) ==
  /\ output_text' = text
  /\ fractional_score' = 1
  /\ pc' = "finally"
  /\ UNCHANGED <<raised, printed>>

\* run_tester: parse_args(...)
ParseArgs ==
  /\ pc = "parse_args"
  /\ LET r == parse_args(model_class_code_str, student_junit_code_str,
                         expected_result_str, is_precheck_str)
     IN  IF r.ok
         THEN /\ args' = r.value
              /\ pc' = "save_model"
              /\ UNCHANGED outcome
         ELSE /\ Raise(r)
              /\ UNCHANGED args
  /\ UNCHANGED <<inputs, model_class_name, junit_class_name, files_to_remove,
                 fs, created, removed, processes>>

\* test_junit_program step 1: model class name, save_to_file, register
SaveModel ==
  /\ pc = "save_model"
  /\ LET r == get_class_name_from_code(args.model_class_code, "model")
     IN  IF r.ok
         THEN /\ model_class_name' = r.value
              /\ fs' = fs \cup {JavaFile(r.value)}
              /\ created' = created \cup {JavaFile(r.value)}
              /\ files_to_remove' = files_to_remove \cup {JavaFile(r.value)}
              /\ pc' = "compile_model"
              /\ UNCHANGED outcome
         ELSE /\ Raise(r)
              /\ UNCHANGED <<model_class_name, fs, created, files_to_remove>>
  /\ UNCHANGED <<inputs, args, junit_class_name, removed, processes>>

\* test_junit_program step 2: javac <model>.java
CompileModel ==
  /\ pc = "compile_model"
  /\ \E compile_result \in CompilerRuns(javac_accepts["model"], args.model_class_code, model_class_name) :
       LET r == check_compile_result(compile_result, "model")
       IN  /\ processes' = Append(processes,
                 [program |-> "javac", unit |-> "model",
                  returncode |-> compile_result.returncode,
                  stdout |-> <<compile_result.stdout>>])
           /\ fs' = fs \cup compile_result.outputs
           /\ created' = created \cup compile_result.outputs
           /\ IF r.ok
              THEN /\ files_to_remove' = files_to_remove \cup {ClassFile(model_class_name)}
                   /\ pc' = "save_junit"
                   /\ UNCHANGED outcome
              ELSE /\ Raise(r)
                   /\ UNCHANGED files_to_remove
  /\ UNCHANGED <<inputs, locals, removed>>

\* test_junit_program step 3: JUnit class name, save_to_file, register
SaveJUnit ==
  /\ pc = "save_junit"
  /\ LET r == get_class_name_from_code(args.student_junit_code, "JUnit")
     IN  IF r.ok
         THEN /\ junit_class_name' = r.value
              /\ fs' = fs \cup {JavaFile(r.value)}
              /\ created' = created \cup {JavaFile(r.value)}
              /\ files_to_remove' = files_to_remove \cup {JavaFile(r.value)}
              /\ pc' = "compile_junit"
              /\ UNCHANGED outcome
         ELSE /\ Raise(r)
              /\ UNCHANGED <<junit_class_name, fs, created, files_to_remove>>
  /\ UNCHANGED <<inputs, args, model_class_name, removed, processes>>

\* test_junit_program step 4: javac -cp .:<console> <junit>.java
CompileJUnit ==
  /\ pc = "compile_junit"
  /\ \E compile_result \in CompilerRuns(javac_accepts["JUnit"], args.student_junit_code, junit_class_name) :
       LET r == check_compile_result(compile_result, "JUnit")
       IN  /\ processes' = Append(processes,
                 [program |-> "javac", unit |-> "JUnit",
                  returncode |-> compile_result.returncode,
                  stdout |-> <<compile_result.stdout>>])
           /\ fs' = fs \cup compile_result.outputs
           /\ created' = created \cup compile_result.outputs
           /\ IF r.ok
              THEN /\ files_to_remove' = files_to_remove \cup {ClassFile(junit_class_name)}
                   /\ pc' = "precheck"
                   /\ UNCHANGED outcome
              ELSE /\ Raise(r)
                   /\ UNCHANGED files_to_remove
  /\ UNCHANGED <<inputs, locals, removed>>

\* test_junit_program: "if is_precheck: return ..."
Precheck ==
  /\ pc = "precheck"
  /\ IF returns_before_execution(args.is_precheck)
     THEN Return(CompiledSuccessfully)
     ELSE /\ pc' = "execute"
          /\ UNCHANGED outcome
  /\ UNCHANGED <<inputs, locals, files_to_remove, fs, created, removed, processes>>

\* test_junit_program steps 5 and 6: run the console launcher, classify
Execute ==
  /\ pc = "execute"
  /\ \E execution_result \in RunnerRuns(ClassFile(junit_class_name) \in fs) :
       LET result_str == result_str_of(execution_result.stdout, JUNK_JUNIT_OUTPUT_TEXT)
           r == assert_result(args.should_pass, execution_result.returncode, result_str)
       IN  /\ processes' = Append(processes,
                 [program |-> "java", unit |-> "JUnit",
                  returncode |-> execution_result.returncode,
                  stdout |-> execution_result.stdout])
           /\ IF r.ok THEN Return(r.value) ELSE Raise(r)
  /\ UNCHANGED <<inputs, locals, files_to_remove, fs, created, removed>>

\* run_tester: "except TestingError as e"
Except ==
  /\ pc = "except"
  /\ output_text' = raised
  /\ fractional_score' = 0
  /\ pc' = "finally"
  /\ UNCHANGED <<inputs, locals, files_to_remove, fs, created, removed,
                 processes, raised, printed>>

\* cleanup: one iteration of "for file in self._files_to_remove: os.remove(file)";
\* os.remove of a missing file raises FileNotFoundError, which leaves run_tester
CleanupStep ==
  /\ pc = "finally"
  /\ \E file \in files_to_remove \ removed :
       IF file \in fs
       THEN /\ fs' = os_remove(fs, file)
            /\ removed' = removed \cup {file}
            /\ UNCHANGED pc
       ELSE /\ pc' = "FileNotFoundError"
            /\ UNCHANGED <<fs, removed>>
  /\ UNCHANGED <<inputs, locals, files_to_remove, created, processes, outcome>>

\* run_tester: cleanup returned; print(json.dumps(result))
PrintResult ==
  /\ pc = "finally"
  /\ files_to_remove \ removed = {}
  /\ printed' = Append(printed, [fraction |-> fractional_score, got |-> output_text])
  /\ pc' = "done"
  /\ UNCHANGED <<inputs, locals, files_to_remove, fs, created, removed,
                 processes, raised, output_text, fractional_score>>

Next ==
  \/ ParseArgs
  \/ SaveModel
  \/ CompileModel
  \/ SaveJUnit
  \/ CompileJUnit
  \/ Precheck
  \/ Execute
  \/ Except
  \/ CleanupStep
  \/ PrintResult

Spec == Init /\ [][Next]_vars

\* ==================================================================== claims
\* the try block of run_tester has been left and both locals are assigned
AfterTry == pc \in {"finally", "done", "FileNotFoundError"}

\* run_tester has ended: by printing the result or by an uncaught exception
Ended == pc \in {"done", "FileNotFoundError"}

ValidFlags ==
  /\ expected_result_str \in {"PASS", "FAIL"}
  /\ is_precheck_str \in {"0", "1"}

\* the process run as program on unit has been run and exited with a code of codes
Exited(program, unit, codes) ==
  \E i \in 1..Len(processes) :
    /\ processes[i].program = program
    /\ processes[i].unit = unit
    /\ processes[i].returncode \in codes

BothCompiled ==
  /\ Exited("javac", "model", {0})
  /\ Exited("javac", "JUnit", {0})

NonZero == RunnerExitCodes \ {0}

LastPiece(text) == IF text = <<>> THEN "" ELSE text[Len(text)]

\* what run_tester printed is the score and text it holds, when it printed
PrintedIs(score, text) ==
  pc = "done" => printed = <<[fraction |-> score, got |-> text]>>

\* C1: every file path added to _files_to_remove during a run no longer
\* exists in the working directory when the run's result is emitted.
C1_RegisteredFilesGoneAtEmit ==
  pc = "done" => files_to_remove \cap fs = {}

C1_Witness ==
  /\ pc = "done"
  /\ fractional_score = 0
  /\ Cardinality(files_to_remove) >= 3

\* C2: with valid flags, precheck off and both compilations successful, if
\* expected_pass is true and the runner's exit code is any nonzero value,
\* test_junit_program fails with UnexpectedFailure and the score is 0.
C2_NonzeroExitIsUnexpectedFailure ==
  ( /\ ValidFlags
    /\ is_precheck_str = "0"
    /\ expected_result_str = "PASS"
    /\ BothCompiled
    /\ Exited("java", "JUnit", NonZero) )
  => /\ LastPiece(raised) = UnexpectedFailureMarker
     /\ AfterTry => fractional_score = 0 /\ output_text = raised
     /\ PrintedIs(0, raised)

\* C3: with valid flags, precheck off and both compilations successful, if
\* expected_pass is false and the runner's exit code is 0, test_junit_program
\* fails with UnexpectedSuccess and the score is 0, whatever the output is.
C3_ZeroExitIsUnexpectedSuccess ==
  ( /\ ValidFlags
    /\ is_precheck_str = "0"
    /\ expected_result_str = "FAIL"
    /\ BothCompiled
    /\ Exited("java", "JUnit", {0}) )
  => /\ LastPiece(raised) = UnexpectedSuccessMarker
     /\ AfterTry => fractional_score = 0 /\ output_text = raised
     /\ PrintedIs(0, raised)

C3_Witness ==
  /\ pc = "done"
  /\ expected_result_str = "FAIL"
  /\ \E i \in 1..Len(processes) :
       /\ processes[i].program = "java"
       /\ processes[i].returncode = 0
       /\ processes[i].stdout = <<>>
  /\ printed = <<[fraction |-> 0, got |-> <<UnexpectedSuccessMarker>>]>>

\* C4: with valid flags, precheck off and both compilations successful, when
\* the outcome matches the expectation (exit 0 with expected_pass, nonzero
\* exit without), test_junit_program returns normally and the score is 1.
C4_MatchingOutcomeScoresOne ==
  ( /\ ValidFlags
    /\ is_precheck_str = "0"
    /\ BothCompiled
    /\ \/ expected_result_str = "PASS" /\ Exited("java", "JUnit", {0})
       \/ expected_result_str = "FAIL" /\ Exited("java", "JUnit", NonZero) )
  => /\ raised = NoError
     /\ AfterTry
     /\ fractional_score = 1
     /\ LastPiece(output_text) \notin {UnexpectedFailureMarker, UnexpectedSuccessMarker}
     /\ PrintedIs(1, output_text)

C4_Witness ==
  /\ pc = "done"
  /\ expected_result_str = "FAIL"
  /\ Exited("java", "JUnit", {2})
  /\ printed[1].fraction = 1

\* C5: if the precheck flag is set the test runner is never invoked, whatever
\* expected_pass is, and the run returns score 1 with the compiled-successfully
\* payload whenever both compilations exit with code 0.
C5_PrecheckNeverExecutes ==
  is_precheck_str = "1" =>
    /\ ~Exited("java", "JUnit", RunnerExitCodes)
    /\ pc # "execute"
    /\ (BothCompiled /\ pc # "precheck") =>
         /\ AfterTry
         /\ raised = NoError
         /\ fractional_score = 1
         /\ output_text = CompiledSuccessfully
         /\ PrintedIs(1, CompiledSuccessfully)

C5_Witness ==
  /\ pc = "done"
  /\ is_precheck_str = "1"
  /\ expected_result_str = "FAIL"
  /\ BothCompiled
  /\ printed = <<[fraction |-> 1, got |-> CompiledSuccessfully]>>

\* the number of public class declarations of a text: the successive
\* non-overlapping matches of the class detector
RECURSIVE DeclarationsFrom(_, _)
DeclarationsFrom(code, pos) ==
  LET m == SearchFrom(code, pos)
  IN  IF m.end = 0 THEN 0 ELSE 1 + DeclarationsFrom(code, m.end + 1)

\* every text a run can be given
SourceTexts == StudentCodes \cup ModelCodes

PublicClassCount == [code \in SourceTexts |-> DeclarationsFrom(code, 1)]

PublicClassDeclarations(code) == PublicClassCount[code]

\* the texts javac rejects whatever else they hold: a public class whose
\* name is not the name of the file the text was saved to
MisnamedPublicClass ==
  [code \in SourceTexts |->
    LET m == SearchFrom(code, 1)
    IN  m.end # 0 /\ \E c \in PublicClasses(code) : c # m.groups[1]]

\* javac does not accept the text of the unit
Uncompilable(unit) ==
  LET code == IF unit = "model" THEN model_class_code_str ELSE student_junit_code_str
  IN  ~javac_accepts[unit] \/ MisnamedPublicClass[code]

\* the text is the CompilationFailed message of the unit: the output of the
\* unit's failed compiler run followed by the marker of the unit's role
IsCompilationFailed(text, unit) ==
  /\ Len(text) = 2
  /\ text[2] = CompilationFailedMarker(unit)
  /\ \E i \in 1..Len(processes) :
       /\ processes[i].program = "javac"
       /\ processes[i].unit = unit
       /\ processes[i].returncode # 0
       /\ processes[i].stdout = <<text[1]>>

\* C6 as stated: with valid flags, if the text of either unit is uncompilable
\* the run yields score 0 and the text is a CompilationFailed message, also
\* when the uncompilable text has no public class declaration.
C6_UncompilableIsCompilationFailed ==
  (ValidFlags /\ (Uncompilable("model") \/ Uncompilable("JUnit")) /\ AfterTry)
  => /\ fractional_score = 0
     /\ IsCompilationFailed(output_text, "model") \/ IsCompilationFailed(output_text, "JUnit")
     /\ PrintedIs(0, output_text)

\* C6 amended: with valid flags, if the text of either unit is uncompilable
\* the run yields score 0 and the text is the message of the first stage that
\* fails, model before JUnit: the no-public-class message of the unit if its
\* text has no public class declaration, else the CompilationFailed message
\* of the unit if its compilation exits nonzero.
C6_UncompilableScoresZero ==
  (ValidFlags /\ (Uncompilable("model") \/ Uncompilable("JUnit")) /\ AfterTry)
  => /\ fractional_score = 0
     /\ raised = output_text
     /\ PrintedIs(0, output_text)
     /\ IF PublicClassDeclarations(model_class_code_str) = 0
        THEN output_text = NoPublicClassMessage("model")
        ELSE IF Uncompilable("model")
        THEN IsCompilationFailed(output_text, "model")
        ELSE IF PublicClassDeclarations(student_junit_code_str) = 0
        THEN output_text = NoPublicClassMessage("JUnit")
        ELSE IsCompilationFailed(output_text, "JUnit")

C6_Witness ==
  /\ pc = "done"
  /\ is_precheck_str = "1"
  /\ Uncompilable("JUnit")
  /\ ~Uncompilable("model")
  /\ Exited("javac", "JUnit", {2})
  /\ printed = <<[fraction |-> 0, got |-> <<"", CompilationFailedMarker("JUnit")>>]>>

\* C7: get_class_name_from_code returns a name only when the text contains
\* exactly one public class declaration; it fails with the no-public-class
\* error when there is none and with the multiple-public-classes error when
\* there is more than one.
C7_ExactlyOnePublicClass ==
  /\ pc \notin {"parse_args", "save_model"} /\ ValidFlags =>
       LET n == PublicClassDeclarations(model_class_code_str)
       IN  /\ n = 0 => raised = NoPublicClassMessage("model")
           /\ n > 1 => raised = MultiplePublicClassesMessage("model")
           /\ n = 1 => model_class_name # <<>>
  /\ Exited("javac", "model", {0}) /\ pc # "save_junit" =>
       LET n == PublicClassDeclarations(student_junit_code_str)
       IN  /\ n = 0 => raised = NoPublicClassMessage("JUnit")
           /\ n > 1 => raised = MultiplePublicClassesMessage("JUnit")
           /\ n = 1 => junit_class_name # <<>>

\* C8: parse_args raises TestingError exactly when the expected-outcome string
\* is not "PASS"/"FAIL" or the precheck string is not "0"/"1"; otherwise it
\* returns the two texts unchanged with should_pass = (expected = "PASS") and
\* is_precheck = (precheck = "1"). A run whose flags are rejected ends with
\* score 0.
FlagErrors ==
  { <<"IS_PRECHECK must be 0 or 1">>,
    <<"Expected output must be either PASS or FAIL">> }

C8_ParseArgsValidatesFlags ==
  pc # "parse_args" =>
    IF ValidFlags
    THEN /\ raised \notin FlagErrors
         /\ args.model_class_code = model_class_code_str
         /\ args.student_junit_code = student_junit_code_str
         /\ args.should_pass = (expected_result_str = "PASS")
         /\ args.is_precheck = (is_precheck_str = "1")
    ELSE /\ raised \in FlagErrors
         /\ pc \in {"except", "finally", "done"}
         /\ AfterTry => fractional_score = 0 /\ output_text = raised
         /\ PrintedIs(0, raised)

C8_Witness ==
  /\ pc = "done"
  /\ expected_result_str = "PASS"
  /\ is_precheck_str = "SOMETHING_ELSE"
  /\ printed = <<[fraction |-> 0, got |-> <<"IS_PRECHECK must be 0 or 1">>]>>

\* C9: whenever a stage of a run fails, cleanup runs and the run still emits
\* a result whose score is 0 and whose text is the message of that failure; a
\* failure inside cleanup neither replaces the failure nor prevents the
\* result from being emitted.
C9_FailureIsEmittedAfterCleanup ==
  (raised # NoError /\ Ended)
  => /\ pc = "done"
     /\ printed = <<[fraction |-> 0, got |-> raised]>>

\* C10: at the end of every run the working directory contains no file that
\* was created during the run: every persisted source file and every output
\* file of a compiler invocation has been removed.
C10_NoCreatedFileLeft ==
  Ended => created \cap fs = {}

\* the kind of verdict of a call that returned r or raised r
VerdictKind(r) ==
  IF r.ok THEN "success"
  ELSE IF LastPiece(r.message) = UnexpectedFailureMarker THEN "UnexpectedFailure"
  ELSE IF LastPiece(r.message) = UnexpectedSuccessMarker THEN "UnexpectedSuccess"
  ELSE "other"

\* the verdict the run holds: what test_junit_program returned or raised
RunVerdict ==
  IF raised = NoError THEN Ok(output_text) ELSE TestingError(raised)

\* the exit code of the test runner, once it has run
RunnerExit ==
  LET i == CHOOSE k \in 1..Len(processes) : processes[k].program = "java"
  IN  processes[i].returncode

\* the kind of verdict and the score step 6 gives, for a flag and an exit
\* code, over every output the runner can write
TwinVerdicts ==
  [should_pass \in BOOLEAN |->
    [returncode \in RunnerExitCodes |->
      { LET r == assert_result(should_pass, returncode,
                               result_str_of(other_stdout, JUNK_JUNIT_OUTPUT_TEXT))
        IN  [kind |-> VerdictKind(r), score |-> IF r.ok THEN 1 ELSE 0] :
        other_stdout \in RunnerOutputs }]]

\* C11: the classification depends only on the runner's exit code and the
\* expected-outcome flag: a run has the score and the kind of verdict of
\* every run with the same flags, compilation results and runner exit code,
\* whatever text the runner of either run printed.
C11_VerdictIndependentOfOutput ==
  Exited("java", "JUnit", RunnerExitCodes) =>
    \A twin \in TwinVerdicts[args.should_pass][RunnerExit] :
      /\ VerdictKind(RunVerdict) = twin.kind
      /\ AfterTry => fractional_score = twin.score
      /\ pc = "done" => printed[1].fraction = twin.score

C11_Witness ==
  /\ pc = "done"
  /\ expected_result_str = "PASS"
  /\ \E i \in 1..Len(processes) :
       /\ processes[i].program = "java"
       /\ processes[i].returncode = 0
       /\ processes[i].stdout = <<"Test run finished", JUNK_JUNIT_OUTPUT_TEXT>>
  /\ printed = <<[fraction |-> 1, got |-> <<"Test run finished">>]>>

\* the path of the compiled output of a unit
ClassPathOf(unit) ==
  ClassFile(IF unit = "model" THEN model_class_name ELSE junit_class_name)

\* C12 as stated: in each compile stage, once the source file has been
\* persisted, <name>.class is registered whether the compiler exits with 0 or
\* not; after a failed compilation the artifact set contains the .class path
\* of the unit that failed.
C12_ClassRegisteredRegardless ==
  \A unit \in {"model", "JUnit"} :
    Exited("javac", unit, {0} \cup NonZero) => ClassPathOf(unit) \in files_to_remove

\* C12 amended: in each compile stage <name>.class is registered exactly when
\* the compiler exits with 0; after a failed compilation the artifact set
\* contains the .java path of the unit that failed, and its .class path only
\* when the model unit, compiled before, has the same class name.
C12_ClassRegisteredOnlyOnSuccess ==
  /\ Exited("javac", "model", {0}) => ClassPathOf("model") \in files_to_remove
  /\ Exited("javac", "JUnit", {0}) => ClassPathOf("JUnit") \in files_to_remove
  /\ Exited("javac", "model", NonZero) =>
       /\ JavaFile(model_class_name) \in files_to_remove
       /\ ClassPathOf("model") \notin files_to_remove
  /\ Exited("javac", "JUnit", NonZero) =>
       /\ JavaFile(junit_class_name) \in files_to_remove
       /\ ClassPathOf("JUnit") \in files_to_remove <=> junit_class_name = model_class_name

C12_Witness ==
  /\ pc = "done"
  /\ Exited("javac", "JUnit", NonZero)
  /\ junit_class_name # model_class_name
  /\ ClassPathOf("JUnit") \notin files_to_remove
  /\ ClassPathOf("model") \in files_to_remove

\* C13: cleanup completes without error and removes every registered path
\* that exists, also when some registered path does not exist in the working
\* directory; an absent path neither aborts cleanup nor leaves later
\* registered paths unremoved.
C13_CleanupToleratesAbsentPaths ==
  /\ pc # "FileNotFoundError"
  /\ pc = "done" => (files_to_remove \cap fs = {} /\ removed = files_to_remove \cap created)

\* C14: a path is added to the artifact set only when its file is known to
\* have been created (.java after save_to_file, .class after the compiler
\* exited with 0); hence every registered path that cleanup has not removed
\* yet names an existing file, in particular when cleanup starts.
C14_RegisteredPathsExist ==
  /\ files_to_remove \subseteq created
  /\ (files_to_remove \ removed) \subseteq fs

\* the positions of the runs of a program on a unit in the process log
RunsOf(program, unit) ==
  {i \in 1..Len(processes) : processes[i].program = program /\ processes[i].unit = unit}

\* C15: within one run there are at most two compiler invocations, model
\* first, then test unit, and at most one test-runner invocation; the test
\* unit is compiled only after the model compilation exited with 0, and the
\* runner is invoked only after both compilations exited with 0.
C15_ProcessesSequenced ==
  /\ RunsOf("javac", "model") \subseteq {1}
  /\ RunsOf("javac", "JUnit") \subseteq {2}
  /\ RunsOf("java", "JUnit") \subseteq {3}
  /\ RunsOf("java", "model") = {}
  /\ Len(processes) <= 3
  /\ \A i \in 2..Len(processes) :
       /\ processes[i - 1].program = "javac"
       /\ processes[i - 1].returncode = 0

C15_Witness ==
  /\ pc = "done"
  /\ Len(processes) = 3
  /\ processes[3].program = "java"
  /\ processes[3].returncode = 1

\* a stage of the run has failed: a TestingError was raised or a compiler
\* exited with a nonzero code
StageFailed ==
  \/ raised # NoError
  \/ Exited("javac", "model", NonZero)
  \/ Exited("javac", "JUnit", NonZero)

\* C16: once a stage of a run has failed no later stage runs: no further
\* source file is persisted, no further compiler or runner process is invoked
\* and nothing is retried; only cleanup and the emission of the zero-score
\* result follow.
C16_FailFast ==
  [][StageFailed =>
       /\ processes' = processes
       /\ created' = created
       /\ files_to_remove' = files_to_remove
       /\ fs' \subseteq fs
       /\ raised' = raised
       /\ pc' \in {"finally", "done", "FileNotFoundError"}
       /\ fractional_score' = 0]_vars

C16_Witness ==
  /\ pc = "done"
  /\ Exited("javac", "model", {0})
  /\ Exited("javac", "JUnit", NonZero)
  /\ Len(processes) = 2
  /\ printed[1].fraction = 0

\* the text the test runner printed, once it has run
RunnerStdout ==
  LET i == CHOOSE k \in 1..Len(processes) : processes[k].program = "java"
  IN  processes[i].stdout

\* a text without the banner and without the whitespace around the rest:
\* the tokens other than the banner, from the first to the last that is not
\* whitespace
WithoutBannerTrimmed(text) ==
  LET kept == SelectSeq(text, LAMBDA t : t # JUNK_JUNIT_OUTPUT_TEXT)
      solid == {i \in 1..Len(kept) : kept[i] \notin SpaceTokens}
  IN  IF solid = {} THEN <<>>
      ELSE SubSeq(kept,
                  CHOOSE i \in solid : \A j \in solid : i <= j,
                  CHOOSE i \in solid : \A j \in solid : j <= i)

\* C17: when execution runs and the verdict is a success, the payload is the
\* literal "All tests passed!" exactly when the runner's exit code is 0 and
\* its output without the banner, trimmed, is empty; in every other
\* successful case the payload is that stripped and trimmed output.
C17_SuccessPayload ==
  (Exited("java", "JUnit", RunnerExitCodes) /\ raised = NoError) =>
    LET text == WithoutBannerTrimmed(RunnerStdout)
        friendly == RunnerExit = 0 /\ text = <<>>
    IN  /\ output_text = AllTestsPassed <=> friendly
        /\ ~friendly => output_text = text
        /\ PrintedIs(1, IF friendly THEN AllTestsPassed ELSE text)

C17_Witness ==
  /\ pc = "done"
  /\ Exited("java", "JUnit", {0})
  /\ RunnerStdout = <<JUNK_JUNIT_OUTPUT_TEXT, " ">>
  /\ RunnerExit = 0
  /\ printed = <<[fraction |-> 1, got |-> AllTestsPassed]>>

\* C18: after the cleanup step of a run the artifact set is empty (files
\* removed and set cleared), so a later cleanup on the same JUnitTester only
\* attempts to remove files registered after it.
C18_ArtifactSetClearedAfterCleanup ==
  pc = "done" => files_to_remove = {}

\* C19: when flag validation rejects the input the run has no side effect
\* besides emitting the zero-score result: no source file is written, no
\* compiler or runner process is invoked, the artifact set stays empty and
\* cleanup removes nothing.
C19_RejectedFlagsNoSideEffects ==
  ~ValidFlags =>
    /\ created = {}
    /\ fs = {}
    /\ processes = <<>>
    /\ files_to_remove = {}
    /\ removed = {}
    /\ pc \in {"parse_args", "except", "finally", "done"}
    /\ pc = "done" => printed[1].fraction = 0

C19_Witness ==
  /\ pc = "done"
  /\ expected_result_str = "SOMETHING_ELSE"
  /\ is_precheck_str = "0"
  /\ printed = <<[fraction |-> 0, got |-> <<"Expected output must be either PASS or FAIL">>]>>

\* C20: provided every external process terminates, every run of run_tester
\* terminates having emitted exactly one two-field result (score and text):
\* a run that has ended has printed one result, and no run prints more.
C20_EndsWithOneResult ==
  /\ Len(printed) <= 1
  /\ Ended =>
       /\ Len(printed) = 1
       /\ DOMAIN printed[1] = {"fraction", "got"}
       /\ printed[1].fraction \in {0, 1}

====
